---- MODULE Spec2Model ----
(***************************************************************************)
(* Model of NotificationModule.execute (shakemap_aqms/coremods/            *)
(* aqms_notify.py).  Strings are sequences of one-character strings so     *)
(* that lower(), "in", slicing, replace() and split() are computed and not *)
(* assumed.                                                                *)
(***************************************************************************)
EXTENDS Integers, Sequences, FiniteSets, TLC

VARIABLES eventid, netid, cancel, isdir, isfile, config,
          pc, raised, aqms_eventid, configRead, idx, cmd, cmdKey,
          attempts, log

vars == <<eventid, netid, cancel, isdir, isfile, config,
          pc, raised, aqms_eventid, configRead, idx, cmd, cmdKey,
          attempts, log>>

-----------------------------------------------------------------------------
(* Bounds of the explored inputs *)

MaxEventidLen == 4
MaxNetidLen == 2
MaxPieces == 3
MaxActions == 2

-----------------------------------------------------------------------------
(* Strings *)

Strings(chars, n) == UNION {[1..k -> chars] : k \in 0..n}

\* The recursive operators below bind their argument with x \in {s}, so that
\* it is evaluated once per call and not once per use.

RECURSIVE Flatten(_)
Flatten(ss) ==
    CHOOSE r \in {(
              IF x = <<>> THEN <<>> ELSE Head(x) \o Flatten(Tail(x)))
                   : x \in {ss}} : TRUE

\* str.lower() on the characters the model uses
Lower(c) == CASE c = "U" -> "u"
              [] c = "W" -> "w"
              [] c = "B" -> "b"
              [] OTHER -> c

LowerStr(s) == [i \in 1..Len(s) |-> Lower(s[i])]

\* Python's "sub in s"
Contains(sub, s) ==
    \E i \in 0..(Len(s) - Len(sub)) : SubSeq(s, i + 1, i + Len(sub)) = sub

\* Python's s[2:]
DropTwo(s) == SubSeq(s, 3, Len(s))

\* lines 60-64: the derived AQMS event id
DeriveEventid(eid, nid) ==
    IF Contains(LowerStr(nid), eid) THEN DropTwo(eid) ELSE eid

\* str.isspace() on the characters the model uses
IsSpace(c) == c \in {" ", "\t"}

\* index of the first occurrence of old in s at or after position 1, 0 if none
Find(s, old) ==
    LET occ == {i \in 1..(Len(s) - Len(old) + 1) :
                    SubSeq(s, i, i + Len(old) - 1) = old}
    IN IF occ = {} THEN 0 ELSE CHOOSE i \in occ : \A j \in occ : i <= j

\* str.replace(old, new, 1): only the first occurrence
ReplaceFirst(s, old, new) ==
    CHOOSE r \in {(
              LET i == Find(x, old)
              IN IF i = 0 THEN x
                 ELSE SubSeq(x, 1, i - 1) \o new
                      \o SubSeq(x, i + Len(old), Len(x)))
                   : x \in {s}} : TRUE

\* str.replace(old, new): left to right, non-overlapping, result not rescanned
RECURSIVE Replace(_, _, _)
Replace(s, old, new) ==
    CHOOSE r \in {(
              LET i == Find(x, old)
              IN IF i = 0 THEN x
                 ELSE SubSeq(x, 1, i - 1) \o new
                      \o Replace(SubSeq(x, i + Len(old), Len(x)), old, new))
                   : x \in {s}} : TRUE

\* length of the longest prefix of s without whitespace
WordLen(s) ==
    LET stops == {i \in 1..Len(s) : IsSpace(s[i])}
    IN IF stops = {} THEN Len(s)
       ELSE (CHOOSE i \in stops : \A j \in stops : i <= j) - 1

\* str.split() with no argument: runs of whitespace separate, no empty words
RECURSIVE Split(_)
Split(s) ==
    CHOOSE r \in {(
              IF x = <<>> THEN <<>>
              ELSE IF IsSpace(Head(x)) THEN Split(Tail(x))
              ELSE <<SubSeq(x, 1, WordLen(x))>>
                   \o Split(SubSeq(x, WordLen(x) + 1, Len(x))))
                   : x \in {s}} : TRUE

\* ' '.join(words)
RECURSIVE Join(_)
Join(ws) ==
    CHOOSE r \in {(
              IF x = <<>> THEN <<>>
              ELSE IF Len(x) = 1 THEN x[1]
              ELSE x[1] \o <<" ">> \o Join(Tail(x)))
                   : x \in {ws}} : TRUE

EVENT == <<"<", "E", "V", "E", "N", "T", ">">>

\* lines 81-82
BuildArgv(template, id) == Split(Replace(template, EVENT, id))


-----------------------------------------------------------------------------
(* Ordering of action names: sorted() compares strings by code point *)

Ord(c) == CASE c = "B" -> 66
            [] c = "a" -> 97
            [] c = "b" -> 98
            [] OTHER -> 0

\* Python's s < t on strings
LexLess(s, t) ==
    \E k \in 0..Len(s) :
        /\ k <= Len(t)
        /\ \A i \in 1..k : s[i] = t[i]
        /\ \/ (k = Len(s) /\ k < Len(t))
           \/ (k < Len(s) /\ k < Len(t) /\ Ord(s[k + 1]) < Ord(t[k + 1]))

RECURSIVE SortedDesc(_)
SortedDesc(S) ==
    CHOOSE r \in {(
              IF T = {} THEN <<>>
              ELSE LET m == CHOOSE x \in T : \A y \in T \ {x} : LexLess(y, x)
                   IN <<m>> \o SortedDesc(T \ {m}))
                   : T \in {S}} : TRUE

\* line 70: sorted(config['notify'].keys())
RECURSIVE Sorted(_)
Sorted(S) ==
    CHOOSE r \in {(
              IF T = {} THEN <<>>
              ELSE LET m == CHOOSE x \in T : \A y \in T \ {x} : LexLess(x, y)
                   IN <<m>> \o Sorted(T \ {m}))
                   : T \in {S}} : TRUE

-----------------------------------------------------------------------------
(* Decisions of execute *)

\* line 52 without the test
NoDirCheck(d) == "none"

\* lines 52-54
DirError(d) == IF ~d THEN "NotADirectoryError" ELSE "none"

\* lines 56-57
FileError(f) == IF ~f THEN "FileNotFoundError" ELSE "none"

\* lines 71-78 ignoring the cancel flag
AlwaysCommand(c) == "command"

\* lines 71-78: the key of the action descriptor the template is read from
SelectKey(c) == IF c THEN "undo_command" ELSE "command"

\* lines 74-76 with continue
NoUndoContinue == "continue"

\* lines 74-76: an action without undo_command while cancelling
OnNoUndo == "break"

\* line 86 with check=True
CheckedRun(returncode) == returncode # 0

\* line 86: subprocess.run is called without check=True, so a completed
\* process never raises CalledProcessError
RaisesOnReturnCode(returncode) == FALSE

\* line 89: after a completed run
OnCompleted == "return"

\* line 94 with continue ("try next action")
LaunchErrorContinue == "continue"

\* line 94: after an exception from subprocess.run
OnLaunchError == "break"

ReturnCodes == {0, 1}
Stdouts == {<<>>, <<"o">>}

\* line 86: what subprocess.run can do with an argument vector; an empty
\* vector always raises inside the try block
RunOutcomes(argv) ==
    {[kind |-> "raised", returncode |-> -1, stdout |-> <<>>]}
    \cup (IF argv = <<>> THEN {}
          ELSE {[kind |-> "completed", returncode |-> r, stdout |-> out] :
                    r \in ReturnCodes, out \in Stdouts})

\* lines 87-88 without the return-code line
LogCommandOnly(argv, returncode, stdout) ==
    << [level |-> "info", msg |-> "command_ran", text |-> Join(argv)] >>

\* lines 87-88
LogCompleted(argv, returncode, stdout) ==
    << [level |-> "info", msg |-> "command_ran", text |-> Join(argv)],
       [level |-> "info", msg |-> "return_code", returncode |-> returncode,
        stdout |-> stdout] >>

\* lines 91-92
LogLaunchError(argv) ==
    << [level |-> "warn", msg |-> "error_running", argv |-> argv],
       [level |-> "warn", msg |-> "error"] >>

-----------------------------------------------------------------------------
(* Inputs *)

EventidChars == {"u", "w", "W", "1"}
NetidChars == {"u", "w", "W"}
Netids == Strings(NetidChars, MaxNetidLen) \ {<<>>}

UW == <<"u", "w">>

ActionNames == {<<"a">>, <<"a", "b">>, <<"b">>, <<"B">>}

RunTemplate == <<"r", " ">> \o EVENT
UndoTemplate == <<"u", " ">> \o EVENT \o <<" ">> \o EVENT
BlankTemplate == <<" ">>

\* action descriptors: 'command' is required, 'undo_command' is optional
Descriptors ==
    {[command |-> t] : t \in {RunTemplate, BlankTemplate}}
    \cup {[command |-> t, undo_command |-> UndoTemplate] :
              t \in {RunTemplate, BlankTemplate}}

NotifyConfigs ==
    UNION {[S -> Descriptors] :
              S \in {T \in SUBSET ActionNames : Cardinality(T) <= MaxActions}}

TemplatePieces ==
    {EVENT, <<" ">>, <<"r">>, <<"<", "E", "V">>, <<"E", "N", "T", ">">>}

PieceTemplates ==
    {Flatten(ps) : ps \in Strings(TemplatePieces, MaxPieces)}

TemplateEventids ==
    {<<"7">>, <<"7", " ", "8">>, <<"\t">>, EVENT, <<"<", "E", "V">>}

-----------------------------------------------------------------------------
(* State machine of execute *)

NoConfig == [notify |-> <<>>]

\* before __init__ and parseArgs: nothing is known yet
Init ==
    /\ eventid = <<>>
    /\ netid = <<>>
    /\ cancel = FALSE
    /\ isdir = FALSE
    /\ isfile = FALSE
    /\ config = NoConfig
    /\ pc = "new"
    /\ raised = "none"
    /\ aqms_eventid = <<>>
    /\ configRead = FALSE
    /\ idx = 1
    /\ cmd = <<>>
    /\ cmdKey = "none"
    /\ attempts = <<>>
    /\ log = <<>>

\* lines 32-38 and 98-120: the module is built for an event id and a cancel
\* flag; the data directory, the origin and the configuration are what the
\* collaborators will return
Construct(e, n, c, d, f, cfg) ==
    /\ eventid' = e
    /\ netid' = n
    /\ cancel' = c
    /\ isdir' = d
    /\ isfile' = f
    /\ config' = cfg
    /\ pc' = "isdir"
    /\ UNCHANGED <<raised, aqms_eventid, configRead, idx, cmd, cmdKey,
                   attempts, log>>

\* event ids and network ids of every shape, one configured action
ConstructEventids ==
    /\ pc = "new"
    /\ \E e \in Strings(EventidChars, MaxEventidLen), n \in Netids :
        Construct(e, n, FALSE, TRUE, TRUE,
                  [notify |-> [k \in {<<"a">>} |-> [command |-> RunTemplate]]])

\* command templates of every shape, one configured action
ConstructTemplates ==
    /\ pc = "new"
    /\ \E t \in PieceTemplates, e \in TemplateEventids, c \in BOOLEAN :
        Construct(e, UW, c, TRUE, TRUE,
                  [notify |-> [k \in {<<"a">>} |->
                                  [command |-> t, undo_command |-> t]]])

\* configurations and file-system states of every shape
ConstructConfigs ==
    /\ pc = "new"
    /\ \E e \in {<<"u", "w", "1">>, <<"7", " ", "8">>}, c \in BOOLEAN,
          d \in BOOLEAN, f \in BOOLEAN, n \in NotifyConfigs :
        /\ f => d
        /\ Construct(e, UW, c, d, f, [notify |-> n])

\* lines 50-54
CheckDir ==
    /\ pc = "isdir"
    /\ IF DirError(isdir) # "none"
       THEN /\ raised' = DirError(isdir)
            /\ pc' = "raised"
       ELSE /\ pc' = "isfile"
            /\ UNCHANGED raised
    /\ UNCHANGED <<eventid, netid, cancel, isdir, isfile, config,
                   aqms_eventid, configRead, idx, cmd, cmdKey, attempts, log>>

\* lines 55-57
CheckFile ==
    /\ pc = "isfile"
    /\ IF FileError(isfile) # "none"
       THEN /\ raised' = FileError(isfile)
            /\ pc' = "raised"
       ELSE /\ pc' = "origin"
            /\ UNCHANGED raised
    /\ UNCHANGED <<eventid, netid, cancel, isdir, isfile, config,
                   aqms_eventid, configRead, idx, cmd, cmdKey, attempts, log>>

\* lines 59-64
ParseOrigin ==
    /\ pc = "origin"
    /\ aqms_eventid' = DeriveEventid(eventid, netid)
    /\ pc' = "get_config"
    /\ UNCHANGED <<eventid, netid, cancel, isdir, isfile, config,
                   raised, configRead, idx, cmd, cmdKey, attempts, log>>

\* lines 66-68
GetConfig ==
    /\ pc = "get_config"
    /\ configRead' = TRUE
    /\ idx' = 1
    /\ pc' = "loop"
    /\ UNCHANGED <<eventid, netid, cancel, isdir, isfile, config,
                   raised, aqms_eventid, cmd, cmdKey, attempts, log>>

action_names == Sorted(DOMAIN config.notify)

\* where the loop goes after "return", "break" or "continue"
Goto(decision) ==
    IF decision = "continue"
    THEN /\ idx' = idx + 1
         /\ pc' = "loop"
    ELSE /\ pc' = "returned"
         /\ UNCHANGED idx

\* lines 70-82 and 96: one pass of the loop up to the try statement
SelectCommand ==
    /\ pc = "loop"
    /\ IF idx > Len(action_names)
       THEN /\ pc' = "returned"
            /\ UNCHANGED <<idx, cmd, cmdKey>>
       ELSE LET action == config.notify[action_names[idx]]
                key == SelectKey(cancel)
            IN IF key \in DOMAIN action
               THEN /\ cmd' = BuildArgv(action[key], aqms_eventid)
                    /\ cmdKey' = key
                    /\ pc' = "run"
                    /\ UNCHANGED idx
               ELSE /\ Goto(OnNoUndo)
                    /\ UNCHANGED <<cmd, cmdKey>>
    /\ UNCHANGED <<eventid, netid, cancel, isdir, isfile, config,
                   raised, aqms_eventid, configRead, attempts, log>>

\* lines 84-94: the try statement
RunCommand ==
    /\ pc = "run"
    /\ \E o \in RunOutcomes(cmd) :
         LET completed == o.kind = "completed"
                          /\ ~RaisesOnReturnCode(o.returncode)
         IN /\ attempts' = Append(attempts,
                  [action |-> action_names[idx], key |-> cmdKey,
                   template |-> config.notify[action_names[idx]][cmdKey],
                   id |-> aqms_eventid, argv |-> cmd,
                   launched |-> o.kind = "completed",
                   returncode |-> o.returncode, stdout |-> o.stdout])
            /\ IF completed
               THEN /\ log' = log \o LogCompleted(cmd, o.returncode, o.stdout)
                    /\ Goto(OnCompleted)
               ELSE /\ log' = log \o LogLaunchError(cmd)
                    /\ Goto(OnLaunchError)
    /\ UNCHANGED <<eventid, netid, cancel, isdir, isfile, config,
                   raised, aqms_eventid, configRead, cmd, cmdKey>>

Next == \/ ConstructEventids
        \/ ConstructTemplates
        \/ ConstructConfigs
        \/ CheckDir
        \/ CheckFile
        \/ ParseOrigin
        \/ GetConfig
        \/ SelectCommand
        \/ RunCommand

Spec == Init /\ [][Next]_vars

Execute == CheckDir \/ CheckFile \/ ParseOrigin \/ GetConfig
           \/ SelectCommand \/ RunCommand

\* execute is straight-line code around blocking calls: once called, each of
\* its steps is taken
FairSpec == Spec /\ WF_vars(Execute)

TypeOK ==
    /\ pc \in {"new", "isdir", "isfile", "origin", "get_config", "loop", "run",
               "returned", "raised"}
    /\ raised \in {"none", "NotADirectoryError", "FileNotFoundError"}
    /\ cancel \in BOOLEAN /\ isdir \in BOOLEAN /\ isfile \in BOOLEAN
    /\ configRead \in BOOLEAN
    /\ idx \in 1..(MaxActions + 2)
    /\ (pc = "raised") = (raised # "none")

-----------------------------------------------------------------------------
(* Properties *)

Terminated == pc \in {"returned", "raised"}

Keys == DOMAIN config.notify

\* C1: a missing data directory raises NotADirectoryError and a missing
\* event.xml in an existing directory raises FileNotFoundError; when either
\* is raised the configuration has not been read, no subprocess has been
\* attempted and nothing has been logged.
C1_ErrorsBeforeConfig ==
    /\ (pc \notin {"new", "isdir"} /\ ~isdir) =>
           (pc = "raised" /\ raised = "NotADirectoryError")
    /\ (pc \notin {"new", "isdir", "isfile"} /\ isdir /\ ~isfile) =>
           (pc = "raised" /\ raised = "FileNotFoundError")
    /\ (raised # "none") =>
           (~configRead /\ attempts = <<>> /\ log = <<>>)
    /\ (configRead \/ attempts # <<>> \/ log # <<>>) => (isdir /\ isfile)

C1_Witness ==
    /\ pc = "raised" /\ raised = "FileNotFoundError"
    /\ isdir /\ ~isfile /\ Keys # {}

Derived == pc \in {"get_config", "loop", "run", "returned"}

\* the event id starts with the network id, compared case-insensitively
StartsWithNetid(eid, nid) ==
    /\ Len(nid) <= Len(eid)
    /\ LowerStr(SubSeq(eid, 1, Len(nid))) = LowerStr(nid)

\* C2: when the event id starts with the network id in any letter case, the
\* derived id is the event id without its first two characters.
C2_PrefixStripped ==
    (Derived /\ StartsWithNetid(eventid, netid)) =>
        aqms_eventid = DropTwo(eventid)

\* C3: when the event id does not start with the network id, the derived id
\* is the event id unchanged.
C3_NoPrefixUnchanged ==
    (Derived /\ ~StartsWithNetid(eventid, netid)) =>
        aqms_eventid = eventid

NoUndoReached ==
    /\ pc = "loop"
    /\ cancel
    /\ idx <= Len(action_names)
    /\ "undo_command" \notin DOMAIN config.notify[action_names[idx]]

\* C5: when cancelling, reaching an action without undo_command ends the
\* iteration: execute returns at once without launching or logging anything
\* and without raising, and nothing happens after the return.
C5_NoUndoStops ==
    /\ [][NoUndoReached =>
             /\ pc' = "returned"
             /\ raised' = "none"
             /\ attempts' = attempts
             /\ log' = log]_vars
    /\ [][pc # "returned"]_vars

C5_Witness ==
    /\ pc = "returned" /\ cancel
    /\ Cardinality(Keys) >= 2
    /\ "undo_command" \notin DOMAIN config.notify[action_names[1]]
    /\ "undo_command" \in DOMAIN config.notify[action_names[2]]
    /\ attempts = <<>> /\ log = <<>>

\* positions of template at which the token <EVENT> starts
Occurrences(t) ==
    {i \in 1..(Len(t) - Len(EVENT) + 1) :
         SubSeq(t, i, i + Len(EVENT) - 1) = EVENT}

\* template with the text at each occurrence exchanged for id
Substituted(t, id) ==
    Flatten([i \in 1..Len(t) |->
               IF i \in Occurrences(t) THEN id
               ELSE IF \E j \in Occurrences(t) : j < i /\ i < j + Len(EVENT)
                    THEN <<>>
                    ELSE <<t[i]>>])

\* the maximal whitespace-free runs of s, in order
Words(s) ==
    LET starts == {i \in 1..Len(s) :
                      ~IsSpace(s[i]) /\ (i = 1 \/ IsSpace(s[i - 1]))}
        ends == {i \in 1..Len(s) :
                      ~IsSpace(s[i]) /\ (i = Len(s) \/ IsSpace(s[i + 1]))}
        nth(S, k) == CHOOSE i \in S : Cardinality({j \in S : j < i}) = k - 1
    IN [k \in 1..Cardinality(starts) |->
           SubSeq(s, nth(starts, k), nth(ends, k))]

\* C6: the argument vector is the template with every occurrence of <EVENT>
\* exchanged once for the derived id, not rescanned, then cut at whitespace.
C6_ArgvIsSubstitutedThenSplit ==
    /\ (pc = "run") =>
           cmd = Words(Substituted(
                     config.notify[action_names[idx]][cmdKey], aqms_eventid))
    /\ \A i \in 1..Len(attempts) :
           attempts[i].argv =
               Words(Substituted(attempts[i].template, attempts[i].id))

C6_Witness ==
    /\ Len(attempts) = 1
    /\ Cardinality(Occurrences(attempts[1].template)) >= 2
    /\ attempts[1].id = <<"7", " ", "8">>
    /\ Len(attempts[1].argv) > Len(Words(attempts[1].template)) + 1

C8_AlwaysLogsResult ==
    \A i \in 1..Len(attempts) :
        /\ \E j \in 1..Len(log) :
               log[j].msg \in {"command_ran", "error_running"}
        /\ \E j \in 1..Len(log) : log[j].msg = "return_code"

\* C8: every attempt is followed by two log entries: after a completed run
\* the command line and the return code with the captured stdout, at info
\* level; after a launch that raised the argument vector and the error, at
\* warning level, and no return code or output.
C8_LogsPerOutcome ==
    /\ Len(log) = 2 * Len(attempts)
    /\ \A i \in 1..Len(attempts) :
           LET a == attempts[i]
               first == log[2 * i - 1]
               second == log[2 * i]
           IN IF a.launched
              THEN /\ first.level = "info" /\ first.msg = "command_ran"
                   /\ first.text = Join(a.argv)
                   /\ second.level = "info" /\ second.msg = "return_code"
                   /\ second.returncode = a.returncode
                   /\ second.stdout = a.stdout
              ELSE /\ first.level = "warn" /\ first.msg = "error_running"
                   /\ first.argv = a.argv
                   /\ second.level = "warn" /\ second.msg = "error"

C8_Witness ==
    /\ Len(attempts) = 1 /\ ~attempts[1].launched
    /\ Len(log) = 2 /\ log[2].msg = "error"

\* C9: the template that is run is the undo_command exactly when cancel is
\* set and the command otherwise, whether or not an undo_command exists.
C9_CancelSelectsTemplate ==
    \A i \in 1..Len(attempts) :
        LET a == attempts[i]
            key == IF cancel THEN "undo_command" ELSE "command"
        IN /\ a.key = key
           /\ a.template = config.notify[a.action][key]
           /\ a.argv = BuildArgv(config.notify[a.action][key], aqms_eventid)

C9_Witness ==
    /\ ~cancel
    /\ Len(attempts) = 1
    /\ "undo_command" \in DOMAIN config.notify[attempts[1].action]
    /\ attempts[1].template = RunTemplate
    /\ attempts[1].argv = <<<<"r">>, <<"1">>>>

C10_AtMostOneAttempt ==
    /\ Len(attempts) <= 1
    /\ \A i \in 1..Len(attempts) :
           /\ attempts[i].action \in Keys
           /\ \A k \in Keys \ {attempts[i].action} :
                  LexLess(attempts[i].action, k)
    /\ (Keys = {}) => (attempts = <<>> /\ log = <<>>)
    /\ (Keys = {} /\ Terminated /\ isfile) => pc = "returned"

====
